---------------------------- MODULE Spec2Model ----------------------------
(* gitlabci-viz: include resolution (parse_includes, parse_gitlab_ci_yaml)  *)
(* and extends-graph construction (build_graph) of src/gitlabci-viz.py,     *)
(* stepped through main().                                                  *)
(*                                                                          *)
(* Python strings are tuples of one-character strings, so that              *)
(* str.startswith, os.path.join and os.path.dirname are computed on the     *)
(* characters.  A YAML value is a record tagged by its Python type; a dict  *)
(* keeps its insertion order as a sequence of [k, v] items.                 *)
EXTENDS Integers, Sequences

(* ------------------------------ bounds --------------------------------- *)
\* longest `include` sequence of the root document
MaxInc == 2
\* longest `extends` sequence of a job
MaxExt == 2

(* ------------------------------ strings -------------------------------- *)
Sep == "/"
sInclude == <<"i","n","c","l","u","d","e">>
sLocal == <<"l","o","c","a","l">>
sRemote == <<"r","e","m","o","t","e">>
sExtends == <<"e","x","t","e","n","d","s">>
sScript == <<"s","c","r","i","p","t">>
sBuild == <<"b","u","i","l","d">>
sTest == <<"t","e","s","t">>
sDeploy == <<"d","e","p","l","o","y">>
sBase == <<"b","a","s","e">>
sDotSetup == <<".","s","e","t","u","p">>
sX == <<"x">>
sUrl == <<"h","t","t","p",":","/","/","h","/","r",".","y","m","l">>

\* the working directory of the process, and the paths the documents name
Cwd == <<"/","a">>
refB == <<"s","u","b","/","b",".","y","m","l">>
refC == <<"c",".","y","m","l">>
refT == <<"t",".","y","m","l">>
refAbsT == <<"/","a","/","t",".","y","m","l">>
PathRoot == <<"/","a","/",".","g","i","t","l","a","b","-","c","i",".","y","m","l">>
PathB == <<"/","a","/","s","u","b","/","b",".","y","m","l">>
PathSubC == <<"/","a","/","s","u","b","/","c",".","y","m","l">>
PathC == <<"/","a","/","c",".","y","m","l">>
PathT == <<"/","a","/","t",".","y","m","l">>

\* str.startswith(prefix) for a one-character prefix
StartsWith(s, c) == Len(s) >= 1 /\ s[1] = c

(* ------------------------------ os.path -------------------------------- *)
\* posixpath.join(a, b)
Join(a, b) ==
    IF StartsWith(b, Sep) THEN b
    ELSE IF Len(a) = 0 \/ a[Len(a)] = Sep THEN a \o b
    ELSE a \o <<Sep>> \o b

\* str.rfind('/') + 1
RFindSep(p) ==
    IF \E i \in 1..Len(p) : p[i] = Sep
    THEN CHOOSE i \in 1..Len(p) : p[i] = Sep /\ \A j \in (i+1)..Len(p) : p[j] # Sep
    ELSE 0

RECURSIVE RStripSep(_)
RStripSep(s) ==
    IF Len(s) > 0 /\ s[Len(s)] = Sep THEN RStripSep(SubSeq(s, 1, Len(s) - 1)) ELSE s

\* posixpath.dirname(p)
Dirname(p) ==
    LET head == SubSeq(p, 1, RFindSep(p))
    IN  IF Len(head) > 0 /\ \E i \in 1..Len(head) : head[i] # Sep
        THEN RStripSep(head) ELSE head

\* os.path.abspath(p) for a path without `.`, `..` or doubled separators
Abspath(p) == Join(Cwd, p)

(* ---------------------------- YAML values ------------------------------ *)
Str(s) == [t |-> "str", s |-> s]
Num(n) == [t |-> "int", n |-> n]
List(l) == [t |-> "list", l |-> l]
Dict(kv) == [t |-> "dict", kv |-> kv]
None == [t |-> "none"]
\* what open() finds when no file is at the path
Missing == [t |-> "missing"]
Item(k, v) == [k |-> k, v |-> v]

IsDict(x) == x.t = "dict"
IsList(x) == x.t = "list"
IsStr(x) == x.t = "str"

\* k in d
Has(d, k) == \E i \in 1..Len(d.kv) : d.kv[i].k = k
\* d[k]
GetItem(d, k) == d.kv[CHOOSE i \in 1..Len(d.kv) : d.kv[i].k = k].v
\* d[k] = v : an existing key keeps its place, a new key goes last
SetItem(d, k, v) ==
    IF Has(d, k)
    THEN Dict([i \in 1..Len(d.kv) |-> IF d.kv[i].k = k THEN Item(k, v) ELSE d.kv[i]])
    ELSE Dict(Append(d.kv, Item(k, v)))
\* del d[k]
DelItem(d, k) == Dict(SelectSeq(d.kv, LAMBDA e : e.k # k))
\* set(d.keys())
KeySet(d) == {d.kv[i].k : i \in 1..Len(d.kv)}

RECURSIVE UpdateKeepsOwn(_, _)
\* d.update(items) done as setdefault: a key the document holds is kept
UpdateKeepsOwn(d, items) ==
    IF items = <<>> THEN d
    ELSE UpdateKeepsOwn(IF Has(d, Head(items).k) THEN d
                        ELSE SetItem(d, Head(items).k, Head(items).v),
                        Tail(items))

RECURSIVE Update(_, _)
\* d.update(items), items in iteration order
Update(d, items) ==
    IF items = <<>> THEN d
    ELSE Update(SetItem(d, Head(items).k, Head(items).v), Tail(items))

(* ------------------------------ inputs --------------------------------- *)
SeqsUpTo(S, n) == UNION {[1..m -> S] : m \in 0..n}

JobScript(s) == Dict(<<Item(Str(sScript), Str(s))>>)
JobExtends(v) == Dict(<<Item(Str(sExtends), v)>>)
\* a job definition that itself holds an `include` key
JobNested == Dict(<<Item(Str(sInclude), Str(refT))>>)

Local(ref) == Dict(<<Item(Str(sLocal), Str(ref))>>)
Remote == Dict(<<Item(Str(sRemote), Str(sUrl))>>)
LocalNum == Dict(<<Item(Str(sLocal), Num(5))>>)

\* root documents with an include directive
RootEntries == {Local(refB), Local(refT), Local(refC), Remote, Num(5)}
RootIncludes == RootEntries \cup {List(l) : l \in SeqsUpTo(RootEntries, MaxInc)}
RootJobs ==
    <<Item(Str(sBuild), JobScript(sX)), Item(Str(sDeploy), JobExtends(Num(5)))>>
IncRootDocs == {Dict(<<Item(Str(sInclude), inc)>> \o RootJobs) : inc \in RootIncludes}

\* root documents without include: one or two jobs, any extends shape
Parents == {Str(sDotSetup), Str(sBase), Str(sBuild), Num(5)}
ExtendsValues ==
    (Parents \cup {List(l) : l \in SeqsUpTo(Parents, MaxExt)}) \cup {Remote}
JobValues ==
    {JobExtends(e) : e \in ExtendsValues}
        \cup {JobScript(sX), JobNested, List(<<Str(sBuild), Str(sTest)>>)}
JobKeys == {Str(sBuild), Str(sDotSetup), Str(sTest)}
GraphDocs ==
    {Dict(<<>>)}
        \cup {Dict(<<Item(k, v)>>) : k \in JobKeys, v \in JobValues}
        \cup {Dict(<<Item(Str(sTest), v), Item(k, w)>>) :
                v \in JobValues, k \in {Str(sBuild), Str(sDotSetup)},
                w \in JobValues}

JobsB == <<Item(Str(sBuild), JobScript(<<"b">>)), Item(Str(sDotSetup), JobScript(<<"b">>))>>
JobsSubC ==
    <<Item(Str(sDotSetup), JobScript(<<"c">>)),
      Item(Str(sTest), JobExtends(List(<<Str(sDotSetup), Str(sBase)>>)))>>
JobsC == <<Item(Str(sTest), JobNested), Item(Str(sBuild), JobScript(<<"c">>))>>
JobsT == <<Item(Str(sBuild), JobExtends(Str(sDotSetup)))>>

\* what may be found at a path the first time it is opened
Contents(p) ==
    IF p = PathRoot THEN {Missing, None} \cup IncRootDocs \cup GraphDocs
    ELSE IF p = PathB THEN
        {Missing, Dict(JobsB),
         Dict(<<Item(Str(sInclude), Local(refC))>> \o JobsB),
         Dict(<<Item(Str(sInclude), List(<<Local(refC), Local(refAbsT)>>))>> \o JobsB)}
    ELSE IF p = PathSubC THEN
        {Missing, Dict(JobsSubC),
         Dict(JobsSubC \o <<Item(Str(sInclude), Local(refAbsT))>>)}
    ELSE IF p = PathC THEN
        {Missing, Dict(JobsC),
         Dict(JobsC \o <<Item(Str(sInclude), Local(refT))>>),
         Dict(JobsC \o <<Item(Str(sInclude), LocalNum)>>)}
    ELSE IF p = PathT THEN
        {Missing, None, Dict(JobsT),
         Dict(<<Item(Str(sInclude), List(<<Remote, Num(5)>>))>> \o JobsT)}
    ELSE {Missing}

(* ------------------------------- state --------------------------------- *)
VARIABLES
    pc,       \* where main() is: "main", "resolve", "build", "visualize", "done", "error"
    fs,       \* the files known so far: path -> parsed content, or Missing
    stack,    \* the active calls of parse_includes, outermost first
    handles,  \* the paths of the file objects open now, in the order opened
    reads,    \* the paths read by yaml.safe_load, in order
    data,     \* what parse_gitlab_ci_yaml returned
    graph,    \* what build_graph returned
    err       \* the exception that ended main()

vars == <<pc, fs, stack, handles, reads, data, graph, err>>

\* main() has no graph before build_graph returns
NoGraph == None

\* main()'s file_path
FilePath == <<".","g","i","t","l","a","b","-","c","i",".","y","m","l">>

Frame(d, dir) ==
    [data |-> d, base_dir |-> dir, includes |-> <<>>, i |-> 0,
     include_path |-> <<>>, st |-> "enter"]

Top == stack[Len(stack)]
SetTop(f) == [stack EXCEPT ![Len(stack)] = f]

\* open(p): the file system answers the same for a path each time
Lookup(p) == IF p \in DOMAIN fs THEN {fs[p]} ELSE Contents(p)
Record(p, c) == [q \in DOMAIN fs \cup {p} |-> IF q = p THEN c ELSE fs[q]]

\* an exception leaves every `with` block and every call
Raise(e) ==
    /\ pc' = "error"
    /\ err' = e
    /\ stack' = <<>>
    /\ handles' = <<>>

\* main() starts in a working directory whose .gitlab-ci.yml is any of the
\* root documents, or is not there; the other files are met as they are
\* opened
Init ==
    /\ pc = "main"
    /\ fs \in {[p \in {Abspath(FilePath)} |-> c] : c \in Contents(Abspath(FilePath))}
    /\ stack = <<>>
    /\ handles = <<>>
    /\ reads = <<>>
    /\ data = None
    /\ graph = NoGraph
    /\ err = "none"

(* --------------------------- networkx.DiGraph -------------------------- *)
\* nx.DiGraph(): nodes in insertion order with their `type` attribute, and
\* the edges, one per (src, dst), with their `label` attribute
DiGraph == [t |-> "graph", nodes |-> <<>>, edges |-> {}]

\* n in graph
HasNode(g, n) == \E i \in 1..Len(g.nodes) : g.nodes[i].id = n

\* graph.add_node(n, type=ty): a new node is added, a known one has its
\* attribute updated
AddNode(g, n, ty) ==
    IF HasNode(g, n)
    THEN [g EXCEPT !.nodes = [i \in 1..Len(g.nodes) |->
                                IF g.nodes[i].id = n THEN [id |-> n, type |-> ty]
                                ELSE g.nodes[i]]]
    ELSE [g EXCEPT !.nodes = Append(g.nodes, [id |-> n, type |-> ty])]

\* the implicit node of add_edge carries no attribute
Touch(g, n) ==
    IF HasNode(g, n) THEN g
    ELSE [g EXCEPT !.nodes = Append(g.nodes, [id |-> n, type |-> "unset"])]

\* graph.add_edge(u, v, label=lb)
AddEdge(g, u, v, lb) ==
    LET h == Touch(Touch(g, u), v)
    IN  [h EXCEPT !.edges =
            {e \in h.edges : ~(e.src = u /\ e.dst = v)}
                \cup {[src |-> u, dst |-> v, label |-> lb]}]

(* ----------------------------- build_graph ----------------------------- *)
\* the `type` the first pass gives a key
KeyType(job_name) == IF StartsWith(job_name.s, ".") THEN "hidden" ELSE "job"

RECURSIVE FirstPass(_, _)
\* for job_name in data.keys(): graph.add_node(job_name, type=...)
FirstPass(g, items) ==
    IF items = <<>> THEN g
    ELSE FirstPass(AddNode(g, Head(items).k, KeyType(Head(items).k)), Tail(items))

\* the parents of a job when only the single-string form is handled
ExtendsOfStrOnly(job_config) ==
    IF IsDict(job_config) /\ Has(job_config, Str(sExtends))
           /\ IsStr(GetItem(job_config, Str(sExtends)))
    THEN <<GetItem(job_config, Str(sExtends))>>
    ELSE <<>>

\* the parents the second pass walks for one job: a str is wrapped, a list
\* is walked as it is, anything else is passed over
ExtendsOf(job_config) ==
    IF IsDict(job_config) /\ Has(job_config, Str(sExtends))
    THEN LET extends == GetItem(job_config, Str(sExtends))
         IN  IF IsStr(extends) THEN <<extends>>
             ELSE IF IsList(extends) THEN extends.l
             ELSE <<>>
    ELSE <<>>

\* one turn of the loop without the `parent not in graph` test
AddParentAlwaysHidden(g, parent, job_name) ==
    AddEdge(AddNode(g, parent, "hidden"), parent, job_name, "extends")

\* one turn of the loop with the edge drawn from the child to the parent
AddParentReversed(g, parent, job_name) ==
    AddEdge(IF ~HasNode(g, parent) THEN AddNode(g, parent, "hidden") ELSE g,
            job_name, parent, "extends")

\* one turn of `for parent in extends`
AddParent(g, parent, job_name) ==
    AddEdge(IF ~HasNode(g, parent) THEN AddNode(g, parent, "hidden") ELSE g,
            parent, job_name, "extends")

RECURSIVE AddParents(_, _, _)
AddParents(g, parents, job_name) ==
    IF parents = <<>> THEN g
    ELSE AddParents(AddParent(g, Head(parents), job_name), Tail(parents), job_name)

RECURSIVE SecondPass(_, _)
\* for job_name, job_config in data.items(): ...
SecondPass(g, items) ==
    IF items = <<>> THEN g
    ELSE SecondPass(AddParents(g, ExtendsOf(Head(items).v), Head(items).k),
                    Tail(items))

build_graph(d) == SecondPass(FirstPass(DiGraph, d.kv), d.kv)

(* ---------------------------- parse_includes --------------------------- *)
\* includes = data['include']; wrapped when it is not a list
Normalize(includes) == IF IsList(includes) THEN includes.l ELSE <<includes>>

\* isinstance(include, dict) and 'local' in include
IsLocalEntry(include) == IsDict(include) /\ Has(include, Str(sLocal))

\* {k: v for k, v in included_data.items() if k != 'include'}
Merged(included_data) == SelectSeq(included_data.kv, LAMBDA e : e.k # Str(sInclude))

\* the recursive call given the base directory of its caller
NestedBaseDirOfCaller(base_dir, include_path) == base_dir

\* the base directory handed to the recursive call
NestedBaseDir(base_dir, include_path) == Dirname(include_path)

\* the include entry the loop of the innermost call is at
AtEntry ==
    /\ pc = "resolve"
    /\ stack # <<>>
    /\ Top.st = "loop"
    /\ Top.i <= Len(Top.includes)
Entry == Top.includes[Top.i]
IncludePath == Join(Top.base_dir, GetItem(Entry, Str(sLocal)).s)

\* main() -> parse_gitlab_ci_yaml(file_path): open, safe_load, call parse_includes
Main ==
    /\ pc = "main"
    /\ \E c \in Lookup(Abspath(FilePath)) :
        /\ c # Missing
        /\ fs' = Record(Abspath(FilePath), c)
        /\ handles' = <<Abspath(FilePath)>>
        /\ reads' = <<Abspath(FilePath)>>
        /\ stack' = <<Frame(c, Dirname(Abspath(FilePath)))>>
    /\ pc' = "resolve"
    /\ UNCHANGED <<data, graph, err>>

\* open(file_path) finds no file
MainNotFound ==
    /\ pc = "main"
    /\ Missing \in Lookup(Abspath(FilePath))
    /\ fs' = Record(Abspath(FilePath), Missing)
    /\ Raise("FileNotFoundError")
    /\ UNCHANGED <<reads, data, graph>>

\* the tests at the head of parse_includes
Enter ==
    /\ pc = "resolve"
    /\ stack # <<>>
    /\ Top.st = "enter"
    /\ IF IsDict(Top.data) /\ Has(Top.data, Str(sInclude))
       THEN stack' = SetTop([Top EXCEPT
                !.includes = Normalize(GetItem(Top.data, Str(sInclude))),
                !.i = 1, !.st = "loop"])
       ELSE stack' = SetTop([Top EXCEPT !.st = "ret"])
    /\ UNCHANGED <<pc, fs, handles, reads, data, graph, err>>

\* an entry that is no mapping raises, another one is passed over
SkipEntryRaises ==
    /\ AtEntry
    /\ ~IsLocalEntry(Entry)
    /\ IF IsDict(Entry)
       THEN /\ stack' = SetTop([Top EXCEPT !.i = Top.i + 1])
            /\ UNCHANGED <<pc, handles, err>>
       ELSE Raise("MalformedDirective")
    /\ UNCHANGED <<fs, reads, data, graph>>

\* the loop does not move on from an entry it passes over
SkipEntryStays ==
    /\ AtEntry
    /\ ~IsLocalEntry(Entry)
    /\ UNCHANGED vars

\* an entry that is no mapping with a `local` key: the loop goes on
SkipEntry ==
    /\ AtEntry
    /\ ~IsLocalEntry(Entry)
    /\ stack' = SetTop([Top EXCEPT !.i = Top.i + 1])
    /\ UNCHANGED <<pc, fs, handles, reads, data, graph, err>>

\* os.path.join(base_dir, include['local']) with a `local` that is no str
JoinTypeError ==
    /\ AtEntry
    /\ IsLocalEntry(Entry)
    /\ ~IsStr(GetItem(Entry, Str(sLocal)))
    /\ Raise("TypeError")
    /\ UNCHANGED <<fs, reads, data, graph>>

\* a local entry whose file is there: open, safe_load, recursive call
OpenInclude ==
    /\ AtEntry
    /\ IsLocalEntry(Entry)
    /\ IsStr(GetItem(Entry, Str(sLocal)))
    /\ \E c \in Lookup(IncludePath) :
        /\ c # Missing
        /\ fs' = Record(IncludePath, c)
        /\ stack' = Append(SetTop([Top EXCEPT !.include_path = IncludePath,
                                              !.st = "wait"]),
                           Frame(c, NestedBaseDir(Top.base_dir, IncludePath)))
    /\ handles' = Append(handles, IncludePath)
    /\ reads' = Append(reads, IncludePath)
    /\ UNCHANGED <<pc, data, graph, err>>

\* a local entry whose file is not there is passed over
IncludeNotFoundSkipped ==
    /\ AtEntry
    /\ IsLocalEntry(Entry)
    /\ IsStr(GetItem(Entry, Str(sLocal)))
    /\ Missing \in Lookup(IncludePath)
    /\ fs' = Record(IncludePath, Missing)
    /\ stack' = SetTop([Top EXCEPT !.i = Top.i + 1])
    /\ UNCHANGED <<pc, handles, reads, data, graph, err>>

\* a local entry whose file is not there: open raises
IncludeNotFound ==
    /\ AtEntry
    /\ IsLocalEntry(Entry)
    /\ IsStr(GetItem(Entry, Str(sLocal)))
    /\ Missing \in Lookup(IncludePath)
    /\ fs' = Record(IncludePath, Missing)
    /\ Raise("FileNotFoundError")
    /\ UNCHANGED <<reads, data, graph>>

\* the loop is over, and the directive is left in place
FinishKeepsInclude ==
    /\ pc = "resolve"
    /\ stack # <<>>
    /\ Top.st = "loop"
    /\ Top.i > Len(Top.includes)
    /\ stack' = SetTop([Top EXCEPT !.st = "ret"])
    /\ UNCHANGED <<pc, fs, handles, reads, data, graph, err>>

\* the loop is over: del data['include']; return data
Finish ==
    /\ pc = "resolve"
    /\ stack # <<>>
    /\ Top.st = "loop"
    /\ Top.i > Len(Top.includes)
    /\ stack' = SetTop([Top EXCEPT !.data = DelItem(Top.data, Str(sInclude)),
                                   !.st = "ret"])
    /\ UNCHANGED <<pc, fs, handles, reads, data, graph, err>>

\* the recursive call returned a mapping: data.update(...), the `with` block
\* ends and closes the file, the loop goes on
Merge ==
    /\ pc = "resolve"
    /\ Len(stack) >= 2
    /\ Top.st = "ret"
    /\ IsDict(Top.data)
    /\ LET caller == stack[Len(stack) - 1]
       IN  stack' = Append(SubSeq(stack, 1, Len(stack) - 2),
                           [caller EXCEPT !.data = Update(caller.data, Merged(Top.data)),
                                          !.i = caller.i + 1,
                                          !.include_path = <<>>,
                                          !.st = "loop"])
    /\ handles' = SubSeq(handles, 1, Len(handles) - 1)
    /\ UNCHANGED <<pc, fs, reads, data, graph, err>>

\* the recursive call returned what is no mapping: included_data.items() raises
MergeNotDict ==
    /\ pc = "resolve"
    /\ Len(stack) >= 2
    /\ Top.st = "ret"
    /\ ~IsDict(Top.data)
    /\ Raise("AttributeError")
    /\ UNCHANGED <<fs, reads, data, graph>>

\* parse_gitlab_ci_yaml returns what the outermost call returned
Return ==
    /\ pc = "resolve"
    /\ Len(stack) = 1
    /\ Top.st = "ret"
    /\ data' = Top.data
    /\ stack' = <<>>
    /\ handles' = <<>>
    /\ pc' = "build"
    /\ UNCHANGED <<fs, reads, graph, err>>

\* graph = build_graph(data)
BuildGraph ==
    /\ pc = "build"
    /\ IsDict(data)
    /\ graph' = build_graph(data)
    /\ pc' = "visualize"
    /\ UNCHANGED <<fs, stack, handles, reads, data, err>>

\* data.keys() on what is no mapping
BuildGraphNotDict ==
    /\ pc = "build"
    /\ ~IsDict(data)
    /\ Raise("AttributeError")
    /\ UNCHANGED <<fs, reads, data, graph>>

\* visualize_graph(graph) draws and returns
Visualize ==
    /\ pc = "visualize"
    /\ pc' = "done"
    /\ UNCHANGED <<fs, stack, handles, reads, data, graph, err>>

Next ==
    \/ Main
    \/ MainNotFound
    \/ Enter
    \/ SkipEntry
    \/ JoinTypeError
    \/ OpenInclude
    \/ IncludeNotFound
    \/ Finish
    \/ Merge
    \/ MergeNotDict
    \/ Return
    \/ BuildGraph
    \/ BuildGraphNotDict
    \/ Visualize

Spec == Init /\ [][Next]_vars

\* the steps of parse_gitlab_ci_yaml and of the calls of parse_includes
ResolveStep ==
    \/ Main
    \/ MainNotFound
    \/ Enter
    \/ SkipEntry
    \/ JoinTypeError
    \/ OpenInclude
    \/ IncludeNotFound
    \/ Finish
    \/ Merge
    \/ MergeNotDict
    \/ Return

\* main() runs on one thread, which is not suspended for good while it
\* resolves the includes
LiveSpec == Init /\ [][Next]_vars /\ WF_vars(ResolveStep)

(* ------------------------ shared by the properties --------------------- *)
\* parse_gitlab_ci_yaml has returned
Returned == pc \in {"build", "visualize", "done"}
\* build_graph has returned
Built == pc \in {"visualize", "done"}
RootDoc == fs[PathRoot]
IncludeKey == Str(sInclude)

\* the entries of an include value, one by one
EntriesOf(v) == IF v.t = "list" THEN v.l ELSE <<v>>
\* the path a local entry of a document in directory dir names
PathOf(dir, e) == Join(dir, GetItem(e, Str(sLocal)).s)

\* a mapping as the function from its keys to their values
AsMap(d) == [k \in KeySet(d) |-> GetItem(d, k)]

RECURSIVE Resolved(_, _)
\* what include resolution is to give for a mapping in directory dir: per
\* key, the value of the last include entry whose resolved document defines
\* the key, else the document's own value
Resolved(doc, dir) ==
    IF ~Has(doc, IncludeKey) THEN AsMap(doc)
    ELSE
        LET es == EntriesOf(GetItem(doc, IncludeKey))
            locals == {i \in 1..Len(es) : IsLocalEntry(es[i])}
            rs == [i \in locals |->
                     Resolved(fs[PathOf(dir, es[i])], Dirname(PathOf(dir, es[i])))]
            def(k) == {i \in locals : k \in DOMAIN rs[i]}
            last(k) == CHOOSE i \in def(k) : \A j \in def(k) : j <= i
            keys == (KeySet(doc) \ {IncludeKey}) \cup UNION {DOMAIN rs[i] : i \in locals}
        IN  [k \in keys |-> IF def(k) # {} THEN rs[last(k)][k] ELSE GetItem(doc, k)]

\* the document the call at depth j of the stack was given, as parsed
OrigOf(j) == IF j = 1 THEN fs[Abspath(FilePath)] ELSE fs[stack[j - 1].include_path]

(* -------------------------------- C1 ----------------------------------- *)
\* C1: when a call of parse_includes on a mapping is about to return, and
\* when parse_gitlab_ci_yaml has returned, every key other than `include`
\* holds the value of the last include entry whose recursively resolved
\* document defines it (replacing the document's own value), a key no
\* include defines holds the document's own value, and the keys are exactly
\* the document's own and those of the included documents.
C1_MergeOrder ==
    /\ \A j \in 1..Len(stack) :
        (stack[j].st = "ret" /\ IsDict(OrigOf(j)))
            => AsMap(stack[j].data) = Resolved(OrigOf(j), stack[j].base_dir)
    /\ (Returned /\ IsDict(RootDoc))
            => AsMap(data) = Resolved(RootDoc, Dirname(PathRoot))

\* the root includes sub/b.yml then t.yml, both define `build`, the root has
\* its own `build` too: t.yml's value is in the result, and `deploy`, which
\* no include defines, is the root's own
C1_Witness ==
    /\ pc = "build"
    /\ IsDict(RootDoc)
    /\ Has(RootDoc, IncludeKey)
    /\ GetItem(RootDoc, IncludeKey) = List(<<Local(refB), Local(refT)>>)
    /\ GetItem(RootDoc, Str(sBuild)) = JobScript(sX)
    /\ GetItem(fs[PathB], Str(sBuild)) = JobScript(<<"b">>)
    /\ GetItem(data, Str(sBuild)) = JobExtends(Str(sDotSetup))
    /\ GetItem(data, Str(sDotSetup)) = JobScript(<<"b">>)
    /\ GetItem(data, Str(sDeploy)) = JobExtends(Num(5))

(* -------------------------------- C2 ----------------------------------- *)
RECURSIVE HasIncludeDeep(_)
\* an `include` key at some nesting level of a value
HasIncludeDeep(v) ==
    IF v.t = "dict"
    THEN \E i \in 1..Len(v.kv) : v.kv[i].k = IncludeKey \/ HasIncludeDeep(v.kv[i].v)
    ELSE IF v.t = "list" THEN \E i \in 1..Len(v.l) : HasIncludeDeep(v.l[i])
    ELSE FALSE

\* C2 as claimed: the returned document holds no `include` key at any
\* nesting level, job definitions included.
C2_NoIncludeAtAnyLevel == (Returned /\ IsDict(data)) => ~HasIncludeDeep(data)

\* C2 as amended: the document a call of parse_includes returns, and the one
\* parse_gitlab_ci_yaml returns, holds no `include` key at its top level;
\* every value it holds is, unchanged, the value some document read holds
\* for that key, so an `include` key inside a job definition stays.
C2_NoTopLevelInclude ==
    /\ \A j \in 1..Len(stack) :
        (stack[j].st = "ret" /\ IsDict(stack[j].data))
            => ~Has(stack[j].data, IncludeKey)
    /\ (Returned /\ IsDict(data)) =>
        /\ ~Has(data, IncludeKey)
        /\ \A i \in 1..Len(data.kv) :
            \E p \in DOMAIN fs :
                /\ IsDict(fs[p])
                /\ Has(fs[p], data.kv[i].k)
                /\ GetItem(fs[p], data.kv[i].k) = data.kv[i].v

\* the root includes c.yml, whose job `test` holds an `include` key: the
\* directive is gone from the top level, the job's key is still there
C2_Witness ==
    /\ pc = "build"
    /\ IsDict(RootDoc)
    /\ Has(RootDoc, IncludeKey)
    /\ PathC \in DOMAIN fs
    /\ Has(fs[PathC], IncludeKey)
    /\ IsDict(data)
    /\ ~Has(data, IncludeKey)
    /\ Has(data, Str(sTest))
    /\ GetItem(data, Str(sTest)) = JobNested

(* ------------------------- C3, C4, C5: the graph ----------------------- *)
NodeIds(g) == {g.nodes[i].id : i \in 1..Len(g.nodes)}
TypeOf(g, n) == g.nodes[CHOOSE i \in 1..Len(g.nodes) : g.nodes[i].id = n].type

\* c names p as a parent: the `extends` of the mapping at key c is the
\* string p or a sequence holding p
Names(d, c, p) ==
    /\ Has(d, c)
    /\ GetItem(d, c).t = "dict"
    /\ Has(GetItem(d, c), Str(sExtends))
    /\ LET e == GetItem(GetItem(d, c), Str(sExtends))
       IN  \/ e.t = "str" /\ e = p
           \/ e.t = "list" /\ \E i \in 1..Len(e.l) : e.l[i] = p
\* every value that is, or is in, the `extends` of a job
Candidates(d) ==
    UNION {LET v == d.kv[i].v
           IN  IF v.t = "dict" /\ Has(v, Str(sExtends))
               THEN LET e == GetItem(v, Str(sExtends))
                    IN  IF e.t = "list" THEN {e.l[j] : j \in 1..Len(e.l)} ELSE {e}
               ELSE {} : i \in 1..Len(d.kv)}
Targets(d) == {p \in Candidates(d) : \E c \in KeySet(d) : Names(d, c, p)}

\* C3 as claimed: a node whose identifier is a string is `hidden` if and
\* only if the identifier begins with `.`, otherwise `job`, also when the
\* node is there only as an extends target.
C3_TypeByFirstCharacter ==
    Built => \A i \in 1..Len(graph.nodes) :
        graph.nodes[i].id.t = "str" =>
            graph.nodes[i].type =
                (IF graph.nodes[i].id.s # <<>> /\ Head(graph.nodes[i].id.s) = "."
                 THEN "hidden" ELSE "job")

\* C3 as amended: a node that is a key of the document is `hidden` if and
\* only if the key begins with `.`, otherwise `job`, whether or not it is an
\* extends target too; a node that is no key of the document (it is there as
\* an extends target only) is `hidden` whatever its first character.
C3_TypeByKeyOrTarget ==
    Built => \A i \in 1..Len(graph.nodes) :
        LET n == graph.nodes[i]
        IN  IF n.id \in KeySet(data)
            THEN n.type = (IF n.id.s # <<>> /\ Head(n.id.s) = "." THEN "hidden"
                           ELSE "job")
            ELSE n.type = "hidden"

\* `test` extends `base` and `build`; `build` is a key, `base` is not
C3_Witness ==
    /\ Built
    /\ KeySet(data) = {Str(sTest), Str(sBuild)}
    /\ GetItem(data, Str(sTest)) = JobExtends(List(<<Str(sBase), Str(sBuild)>>))
    /\ TypeOf(graph, Str(sBase)) = "hidden"
    /\ TypeOf(graph, Str(sBuild)) = "job"
    /\ TypeOf(graph, Str(sTest)) = "job"

\* C4: every identifier a job's `extends` names (a string, or an element of
\* a sequence) is a node of the graph; no identifier is a node twice; the
\* nodes are exactly the keys of the document and the extends targets.
C4_NodesAreKeysAndTargets ==
    Built =>
        /\ Targets(data) \subseteq NodeIds(graph)
        /\ \A i, j \in 1..Len(graph.nodes) :
            graph.nodes[i].id = graph.nodes[j].id => i = j
        /\ NodeIds(graph) = KeySet(data) \cup Targets(data)

\* two jobs extend `.setup`, one of them twice, and `.setup` is a key
C4_Witness ==
    /\ Built
    /\ KeySet(data) = {Str(sTest), Str(sDotSetup)}
    /\ GetItem(data, Str(sTest)) = JobExtends(List(<<Str(sDotSetup), Str(sDotSetup)>>))
    /\ GetItem(data, Str(sDotSetup)) = JobExtends(List(<<Str(sDotSetup), Str(sBase)>>))
    /\ Len(graph.nodes) = 3
    /\ NodeIds(graph) = {Str(sTest), Str(sDotSetup), Str(sBase)}

\* C5: the edges are exactly one edge per pair (p, c) with c a key whose
\* mapping names p in its `extends`, from p to c, labelled `extends`; several
\* parents give one edge each, a parent named twice gives one edge.
C5_EdgesAreExtends ==
    Built =>
        graph.edges =
            {[src |-> p, dst |-> c, label |-> "extends"] :
                <<p, c>> \in {x \in Candidates(data) \X KeySet(data) :
                                Names(data, x[2], x[1])}}

\* `test` extends [.setup, base]; `build` extends [.setup, .setup]
C5_Witness ==
    /\ Built
    /\ KeySet(data) = {Str(sTest), Str(sBuild)}
    /\ GetItem(data, Str(sTest)) = JobExtends(List(<<Str(sDotSetup), Str(sBase)>>))
    /\ GetItem(data, Str(sBuild)) = JobExtends(List(<<Str(sDotSetup), Str(sDotSetup)>>))
    /\ graph.edges =
        {[src |-> Str(sDotSetup), dst |-> Str(sTest), label |-> "extends"],
         [src |-> Str(sBase), dst |-> Str(sTest), label |-> "extends"],
         [src |-> Str(sDotSetup), dst |-> Str(sBuild), label |-> "extends"]}

(* -------------------------------- C6 ----------------------------------- *)
\* the file whose document the call at depth j of the stack resolves
FileOf(j) == IF j = 1 THEN PathRoot ELSE stack[j - 1].include_path
DirSub == <<"/","a","/","s","u","b">>

\* C6: at every depth the base directory of a call is the directory of the
\* file whose document it resolves, and the path opened for a relative
\* `local` is that directory, a separator and the `local`; with the root at
\* /a/.gitlab-ci.yml including sub/b.yml, the c.yml that b.yml includes is
\* read from /a/sub/c.yml, and /a/c.yml is not opened.
C6_RelativeToIncludingFile ==
    /\ \A j \in 1..Len(stack) :
        /\ stack[j].base_dir = Dirname(FileOf(j))
        /\ stack[j].st = "wait" =>
            LET ref == GetItem(stack[j].includes[stack[j].i], Str(sLocal)).s
            IN  Head(ref) # Sep =>
                    stack[j].include_path = Dirname(FileOf(j)) \o <<Sep>> \o ref
    /\ (Len(stack) >= 2 /\ stack[1].include_path = PathB /\ stack[2].st = "wait"
            /\ stack[2].includes[stack[2].i] = Local(refC))
        => (stack[2].base_dir = DirSub /\ stack[2].include_path = PathSubC
                /\ \E r \in 1..Len(reads) : reads[r] = PathSubC)
    /\ (PathRoot \in DOMAIN fs /\ IsDict(RootDoc) /\ Has(RootDoc, IncludeKey)
            /\ GetItem(RootDoc, IncludeKey) = Local(refB))
        => PathC \notin DOMAIN fs

\* the root includes sub/b.yml, b.yml includes c.yml, and c.yml is open
C6_Witness ==
    /\ Len(stack) = 3
    /\ stack[1].base_dir = Cwd
    /\ stack[1].include_path = PathB
    /\ stack[2].includes[stack[2].i] = Local(refC)
    /\ stack[2].include_path = PathSubC
    /\ stack[3].base_dir = DirSub
    /\ reads = <<PathRoot, PathB, PathSubC>>

(* -------------------------------- C7 ----------------------------------- *)
\* an include value with an entry that is no mapping
MalformedInclude(doc) ==
    /\ Has(doc, IncludeKey)
    /\ \E i \in 1..Len(EntriesOf(GetItem(doc, IncludeKey))) :
        EntriesOf(GetItem(doc, IncludeKey))[i].t # "dict"
\* an include value with no entry that is a mapping with a `local` key
NoLocalEntry(doc) ==
    \A i \in 1..Len(EntriesOf(GetItem(doc, IncludeKey))) :
        ~(EntriesOf(GetItem(doc, IncludeKey))[i].t = "dict"
            /\ Has(EntriesOf(GetItem(doc, IncludeKey))[i], Str(sLocal)))
\* the extends value of the job at key c, when it has one
HasExtends(d, c) == GetItem(d, c).t = "dict" /\ Has(GetItem(d, c), Str(sExtends))
ExtendsAt(d, c) == GetItem(GetItem(d, c), Str(sExtends))
\* an extends value that is neither a string nor a sequence of strings
MalformedExtends(d) ==
    \E c \in KeySet(d) :
        /\ HasExtends(d, c)
        /\ \/ ExtendsAt(d, c).t \notin {"str", "list"}
           \/ /\ ExtendsAt(d, c).t = "list"
              /\ \E i \in 1..Len(ExtendsAt(d, c).l) : ExtendsAt(d, c).l[i].t # "str"

\* what makes the code raise
CauseNotFound == \E p \in DOMAIN fs : fs[p] = Missing
CauseNotDict == \E p \in DOMAIN fs : fs[p] # Missing /\ fs[p].t # "dict"
CauseLocalNotStr ==
    \E p \in DOMAIN fs :
        /\ fs[p].t = "dict"
        /\ Has(fs[p], IncludeKey)
        /\ \E i \in 1..Len(EntriesOf(GetItem(fs[p], IncludeKey))) :
            LET e == EntriesOf(GetItem(fs[p], IncludeKey))[i]
            IN  e.t = "dict" /\ Has(e, Str(sLocal)) /\ GetItem(e, Str(sLocal)).t # "str"

C8_IncludeNotFoundIsFatal ==
    (\E p \in DOMAIN fs : p # PathRoot /\ fs[p] = Missing) =>
        /\ pc = "error"
        /\ err = "FileNotFoundError"
        /\ stack = <<>>
        /\ handles = <<>>
        /\ data = None
        /\ graph = NoGraph

\* the root includes [t.yml, sub/b.yml]: t.yml was read and merged, then
\* sub/b.yml, second in the sequence, was read, and the c.yml it includes,
\* two levels down, is not there
C8_Witness ==
    /\ pc = "error"
    /\ err = "FileNotFoundError"
    /\ PathSubC \in DOMAIN fs
    /\ fs[PathSubC] = Missing
    /\ GetItem(RootDoc, IncludeKey) = List(<<Local(refT), Local(refB)>>)
    /\ reads = <<PathRoot, PathT, PathB>>

(* -------------------------------- C9 ----------------------------------- *)
\* C9: the file of an included document is closed before the call that
\* resolves that document's own includes begins, so at most one include file
\* (handles[1] is the root's) is open at any moment.
C9_HandleClosedBeforeRecursion ==
    /\ \A j \in 2..Len(stack) :
        \A h \in 1..Len(handles) : handles[h] # stack[j - 1].include_path
    /\ Len(handles) <= 2

(* -------------------------------- C10 ---------------------------------- *)
RECURSIVE ReadsOfDoc(_, _)
RECURSIVE ReadsOfEntries(_, _)
\* the include files of a document in directory dir, in document order,
\* each followed by its own
ReadsOfDoc(doc, dir) ==
    IF doc.t = "dict" /\ Has(doc, IncludeKey)
    THEN ReadsOfEntries(EntriesOf(GetItem(doc, IncludeKey)), dir)
    ELSE <<>>
ReadsOfEntries(es, dir) ==
    IF es = <<>> THEN <<>>
    ELSE (IF Head(es).t = "dict" /\ Has(Head(es), Str(sLocal))
          THEN <<PathOf(dir, Head(es))>>
                \o ReadsOfDoc(fs[PathOf(dir, Head(es))], Dirname(PathOf(dir, Head(es))))
          ELSE <<>>) \o ReadsOfEntries(Tail(es), dir)

\* parse_gitlab_ci_yaml has returned or raised
Terminated == Returned \/ pc = "error"

\* C10: parse_gitlab_ci_yaml returns or raises; on the documents drawn here
\* (parsed YAML) it raises only for a missing file, a document that is no
\* mapping or a `local` that is no string, and
\* when parse_gitlab_ci_yaml has returned, the files read are the root and
\* then every include file, in document order, depth first, a file included
\* from two places read twice.
C10_TerminatesInOrder ==
    /\ <>Terminated
    /\ [](pc = "error" => (CauseNotFound \/ CauseNotDict \/ CauseLocalNotStr))
    /\ [](Returned => reads = <<PathRoot>> \o ReadsOfDoc(RootDoc, Cwd))

\* t.yml is read for sub/c.yml and again for the root
C10_Witness ==
    /\ pc = "done"
    /\ Len(reads) = 5
    /\ reads[2] = PathB
    /\ reads[3] = PathSubC
    /\ reads[4] = PathT
    /\ reads[5] = PathT

=============================================================================
